---------------------------- MODULE Spec2Model ----------------------------
(***************************************************************************)
(* wavify: batch conversion of audio files to WAV (src/src/main.rs).       *)
(*                                                                         *)
(* Strings are sequences of one-character strings, so that parsing,        *)
(* formatting and path splitting are computed and not assumed.             *)
(* Rust indexes args from 0; here args[1] is the program name, so the Rust *)
(* index i is the index i + 1 below.                                       *)
(***************************************************************************)
EXTENDS Integers, Sequences, FiniteSets, TLC

(***************************************************************************)
(* Bounds of the model                                                     *)
(***************************************************************************)
\* longest argument list drawn, not counting the program name
MaxArgs == 3
\* largest available parallelism the host reports
MaxP == 3
\* most files present in the file system at start
MaxFiles == 2
\* longest argument list drawn for the study of validate_args, not counting
\* the program name
MaxArgLen == 6

(***************************************************************************)
(* Text                                                                    *)
(***************************************************************************)
Digits == {"0", "1", "2", "3", "4", "5", "6", "7", "8", "9"}

DigitVal(c) ==
    CASE c = "0" -> 0 [] c = "1" -> 1 [] c = "2" -> 2 [] c = "3" -> 3
      [] c = "4" -> 4 [] c = "5" -> 5 [] c = "6" -> 6 [] c = "7" -> 7
      [] c = "8" -> 8 [] c = "9" -> 9

IsPrefix(p, s) == Len(p) <= Len(s) /\ SubSeq(s, 1, Len(p)) = p

IsSuffix(p, s) == Len(p) <= Len(s) /\ SubSeq(s, Len(s) - Len(p) + 1, Len(s)) = p

\* the largest index of s holding c, 0 when there is none
RECURSIVE LastIndexOf(_, _, _)
LastIndexOf(s, c, n) ==
    IF n = 0 THEN 0
    ELSE IF s[n] = c THEN n
    ELSE LastIndexOf(s, c, n - 1)

(***************************************************************************)
(* Command line tokens                                                     *)
(***************************************************************************)
t_f == <<"-", "f">>
t_folder == <<"-", "-", "f", "o", "l", "d", "e", "r">>
t_n == <<"-", "n">>
t_num_threads == <<"-", "-", "n", "u", "m", "-", "t", "h", "r", "e", "a", "d", "s">>
t_d == <<"-", "d">>
t_delete == <<"-", "-", "d", "e", "l", "e", "t", "e">>
t_bogus == <<"-", "-", "b", "o", "g", "u", "s">>
t_abc == <<"a", "b", "c">>
t_2 == <<"2">>
t_plus2 == <<"+", "2">>
t_dir == <<"/", "d">>
t_dot == <<".">>
t_0 == <<"0">>
t_brack == <<"[">>
t_prog == <<"w", "a", "v", "i", "f", "y">>

Tokens ==
    {t_f, t_folder, t_n, t_num_threads, t_d, t_delete, t_bogus, t_abc, t_2, t_plus2, t_dir}

\* the keys of valid_args
valid_args == {t_f, t_folder, t_n, t_num_threads, t_d, t_delete}

\* str::parse::<usize>: an optional leading "+", then one or more decimal
\* digits; -1 stands for Err.  (Tokens are far shorter than 20 digits, so the
\* overflow error of a 64-bit usize cannot arise.)
RECURSIVE ParseDigits(_, _)
ParseDigits(s, acc) ==
    IF s = <<>> THEN acc
    ELSE IF Head(s) \notin Digits THEN -1
    ELSE ParseDigits(Tail(s), acc * 10 + DigitVal(Head(s)))

ParseUsize(s) ==
    LET body == IF s # <<>> /\ Head(s) = "+" THEN Tail(s) ELSE s
    IN  IF body = <<>> THEN -1 ELSE ParseDigits(body, 0)

(***************************************************************************)
(* validate_args                                                           *)
(***************************************************************************)
DefaultArgs == [folder |-> t_dot, num_threads |-> 0, delete |-> FALSE]

RetSome(a) == [kind |-> "Some", val |-> a]
RetNone == [kind |-> "None", val |-> DefaultArgs]
\* args[i+1] read past the end of the vector: the thread panics
RetPanic == [kind |-> "Panic", val |-> DefaultArgs]
NotValidated == [kind |-> "Unset", val |-> DefaultArgs]

\* a variant of the loop in which the first occurrence of -f and of -n is
\* the one that counts
RECURSIVE ValidateLoop_FirstWins(_, _, _)
ValidateLoop_FirstWins(a, i, processed_args) ==
    IF ~(i <= Len(a)) THEN RetSome(processed_args)
    ELSE IF a[i] \notin valid_args THEN RetNone
    ELSE IF a[i] \in {t_f, t_folder} THEN
        IF i + 1 > Len(a) THEN RetPanic
        ELSE ValidateLoop_FirstWins(a, i + 2,
                 IF processed_args.folder = t_dot
                 THEN [processed_args EXCEPT !.folder = a[i + 1]]
                 ELSE processed_args)
    ELSE IF a[i] \in {t_n, t_num_threads} THEN
        IF i + 1 > Len(a) THEN RetPanic
        ELSE IF ParseUsize(a[i + 1]) < 0 THEN RetNone
        ELSE ValidateLoop_FirstWins(a, i + 2,
                 IF processed_args.num_threads = 0
                 THEN [processed_args EXCEPT !.num_threads = ParseUsize(a[i + 1])]
                 ELSE processed_args)
    ELSE IF a[i] \in {t_d, t_delete} THEN
        ValidateLoop_FirstWins(a, i + 1, [processed_args EXCEPT !.delete = TRUE])
    ELSE RetNone

\* the while loop of validate_args, from index i with the fields parsed so far
RECURSIVE ValidateLoop(_, _, _)
ValidateLoop(a, i, processed_args) ==
    IF ~(i <= Len(a)) THEN RetSome(processed_args)
    ELSE IF a[i] \notin valid_args THEN RetNone
    ELSE IF a[i] \in {t_f, t_folder} THEN
        IF i + 1 > Len(a) THEN RetPanic
        ELSE ValidateLoop(a, i + 2, [processed_args EXCEPT !.folder = a[i + 1]])
    ELSE IF a[i] \in {t_n, t_num_threads} THEN
        IF i + 1 > Len(a) THEN RetPanic
        ELSE IF ParseUsize(a[i + 1]) < 0 THEN RetNone
        ELSE ValidateLoop(a, i + 2,
                          [processed_args EXCEPT !.num_threads = ParseUsize(a[i + 1])])
    ELSE IF a[i] \in {t_d, t_delete} THEN
        ValidateLoop(a, i + 1, [processed_args EXCEPT !.delete = TRUE])
    ELSE RetNone

\* a variant that falls back to the defaults when the loop rejects the arguments
validate_args_Lenient(a) ==
    IF Len(a) <= 6
    THEN LET r == ValidateLoop(a, 2, DefaultArgs)
         IN  IF r.kind = "None" THEN RetSome(DefaultArgs) ELSE r
    ELSE RetNone

\* a variant without the limit on the length of the vector
validate_args_NoLimit(a) == ValidateLoop(a, 2, DefaultArgs)

validate_args(a) ==
    IF Len(a) <= 6 THEN ValidateLoop(a, 2, DefaultArgs) ELSE RetNone

(***************************************************************************)
(* Paths (std::path::Path) and the file system                             *)
(***************************************************************************)
\* a byte sequence that is not valid UTF-8, standing in a file name
BadByte == "\\xFF"

\* Path::to_str / OsStr::to_str: None (FALSE below) unless valid UTF-8
IsUtf8(s) == \A k \in 1..Len(s) : s[k] # BadByte

\* the final component of the path
FileName(p) == SubSeq(p, LastIndexOf(p, "/", Len(p)) + 1, Len(p))

\* Path::file_stem: the file name up to its last ".", the whole name when it
\* has no "." or only a leading one
FileStem(p) ==
    LET n == FileName(p)
        k == LastIndexOf(n, ".", Len(n))
    IN  IF k <= 1 THEN n ELSE SubSeq(n, 1, k - 1)

\* PathBuf::pop on a clone of the path: the path without its final component
Parent(p) ==
    LET k == LastIndexOf(p, "/", Len(p))
    IN  IF k = 0 THEN <<>>
        ELSE IF k = 1 THEN <<"/">>
        ELSE SubSeq(p, 1, k - 1)

\* the files that may exist when the program starts, in the (alphabetical)
\* order in which glob yields them
p_c_ogg == <<"c", ".", "o", "g", "g">>
p_a_flac == <<"/", "d", "/", "a", ".", "f", "l", "a", "c">>
p_a_mp3 == <<"/", "d", "/", "a", ".", "m", "p", "3">>
p_b_MP3 == <<"/", "d", "/", "b", ".", "M", "P", "3">>
p_e_aif == <<"/", "d", "/", "s", "/", "e", ".", "a", "i", "f">>
\* a file with a representable name in a directory whose name is not
p_bad_mp3 == <<"/", "d", "/", BadByte, "/", "e", ".", "m", "p", "3">>

Universe == <<p_c_ogg, p_a_flac, p_a_mp3, p_b_MP3, p_e_aif, p_bad_mp3>>

UniverseSet == {Universe[k] : k \in 1..Len(Universe)}

\* the extensions of find_audio, in its order
extensions == << <<"a", "i", "f">>, <<"a", "i", "f", "f">>, <<"m", "p", "3">>,
                 <<"f", "l", "a", "c">>, <<"o", "g", "g">>, <<"a", "a", "c">>,
                 <<"m", "4", "a">>, <<"w", "m", "a">> >>

\* the directories whose listing the host may refuse
DeniableDirs == {<<"/", "d", "/", "s">>}

\* p lies below one of the directories ds
Below(p, ds) == \E d \in ds : IsPrefix(d \o <<"/">>, p)

\* glob::Pattern::new fails on a "[" that no later "]" closes
PatternOk(pattern) ==
    \A k \in 1..Len(pattern) :
        pattern[k] = "[" => \E l \in (k + 2)..Len(pattern) : pattern[l] = "]"

GlobOk(path) == [ok |-> TRUE, path |-> path]
GlobErr == [ok |-> FALSE, path |-> <<>>]

RECURSIVE SeqOfSet(_)
SeqOfSet(S) ==
    IF S = {} THEN <<>>
    ELSE LET x == CHOOSE y \in S : TRUE IN <<x>> \o SeqOfSet(S \ {x})

\* the paths glob walks for the pattern "{directory}/**/...": those that begin
\* with "{directory}/", and for the directory "." the relative paths, which
\* glob yields without a leading "./"
InDir(directory, p) ==
    IF directory = <<".">> THEN p # <<>> /\ p[1] # "/"
    ELSE IsPrefix(directory \o <<"/">>, p)

\* the entries of glob("{directory}/**/*.{extension}") on the file system
\* fsys when the directories denied cannot be listed: Ok for each existing
\* path below directory whose name ends in ".{extension}" (case-sensitive;
\* glob passes over names that are not valid UTF-8), Err for each directory
\* below directory that cannot be listed, whose files are not seen
Glob(directory, extension, fsys, denied) ==
    LET seen == SelectSeq(Universe,
                   LAMBDA p : /\ p \in DOMAIN fsys
                              /\ InDir(directory, p)
                              /\ ~Below(p, denied)
                              /\ IsUtf8(FileName(p))
                              /\ IsSuffix(<<".">> \o extension, FileName(p)))
        errs == SeqOfSet({d \in denied : InDir(directory, d)})
    IN  [k \in 1..Len(seen) |-> GlobOk(seen[k])]
        \o [k \in 1..Len(errs) |-> GlobErr]

\* lines 17-34: the tuple pushed for one matched path; a part that is not
\* valid UTF-8 becomes the empty string
FileTuple(path) ==
    [path |-> IF IsUtf8(path) THEN path ELSE <<>>,
     parent |-> IF IsUtf8(Parent(path)) THEN Parent(path) ELSE <<>>,
     file_name |-> IF IsUtf8(FileStem(path)) THEN FileStem(path) ELSE <<>>]

\* lines 14-38: the loop over the entries; an Err entry pushes nothing
RECURSIVE MapTuples(_)
MapTuples(entries) ==
    IF entries = <<>> THEN <<>>
    ELSE (IF Head(entries).ok THEN <<FileTuple(Head(entries).path)>> ELSE <<>>)
         \o MapTuples(Tail(entries))

\* lines 10-42: the loop over the extensions; a pattern that glob rejects
\* pushes nothing
RECURSIVE FindLoop(_, _, _, _)
FindLoop(directory, exts, fsys, denied) ==
    IF exts = <<>> THEN <<>>
    ELSE (IF PatternOk(directory \o <<"/", "*", "*", "/", "*", ".">> \o Head(exts))
          THEN MapTuples(Glob(directory, Head(exts), fsys, denied))
          ELSE <<>>)
         \o FindLoop(directory, Tail(exts), fsys, denied)

find_audio(directory, fsys, denied) == FindLoop(directory, extensions, fsys, denied)

(***************************************************************************)
(* The codec (aus) as the program sees it                                  *)
(***************************************************************************)
AudioError == {"FileCorrupt", "FileInaccessible", "NumChannels", "NumFrames",
               "SampleValueOutOfRange", "WrongFormat"}

\* what a successful aus::read may hand back: 0 is the codec's "unset" value
AudioChoices ==
    {[bits_per_sample |-> 0, sample_rate |-> 0, audio_format |-> "F32"],
     [bits_per_sample |-> 0, sample_rate |-> 48000, audio_format |-> "F32"],
     [bits_per_sample |-> 24, sample_rate |-> 0, audio_format |-> "S24"],
     [bits_per_sample |-> 24, sample_rate |-> 48000, audio_format |-> "S24"]}

NoAudio == [bits_per_sample |-> -1, sample_rate |-> -1, audio_format |-> "none"]

\* content of a file that was there at start, and of one aus::write made
SrcContent == [wav |-> FALSE, audio |-> NoAudio]
WavContent(audio) == [wav |-> TRUE, audio |-> audio]

\* the results aus::read(path) can have: a file that does not exist cannot be
\* opened; for a file that exists every result of the codec is possible
ReadResults(path, fsys) ==
    IF path \in DOMAIN fsys
    THEN {[ok |-> TRUE, audio |-> a, err |-> "none"] : a \in AudioChoices}
         \cup {[ok |-> FALSE, audio |-> NoAudio, err |-> e] : e \in AudioError}
    ELSE {[ok |-> FALSE, audio |-> NoAudio, err |-> "FileInaccessible"]}

\* the results aus::write can have
WriteResults == {"Ok"} \cup AudioError

\* a variant that fills in the sample rate only when the bit depth was unset
Normalize_Coupled(audio) ==
    IF audio.bits_per_sample = 0
    THEN [audio EXCEPT !.bits_per_sample = 16, !.audio_format = "S16",
                       !.sample_rate = IF @ = 0 THEN 44100 ELSE @]
    ELSE audio

\* lines 68-74
Normalize(audio) ==
    LET a1 == IF audio.bits_per_sample = 0
              THEN [audio EXCEPT !.bits_per_sample = 16, !.audio_format = "S16"]
              ELSE audio
    IN  IF a1.sample_rate = 0 THEN [a1 EXCEPT !.sample_rate = 44100] ELSE a1

\* a variant that names the output with a source extension
NewFileName_Mp3(dir, name) == dir \o <<"/">> \o name \o <<".", "m", "p", "3">>

\* line 75: format!("{}/{}.wav", dir, name)
NewFileName(dir, name) == dir \o <<"/">> \o name \o <<".", "w", "a", "v">>

(***************************************************************************)
(* State                                                                   *)
(***************************************************************************)
VARIABLES
    args,                   \* the argument vector, until a configuration is made of it
    validated,              \* what validate_args returned
    pc,                     \* where the main thread is
    stdout,                 \* the lines the main thread printed, in order
    fs,                     \* the file system: path -> content
    files,                  \* main's files vector
    max_available_threads,  \* process: line 48
    num_threads,            \* process: line 53, the size of the pool
    it,                     \* the index of the running for loop (lines 60, 166)
    jobs,                   \* the closures handed to the pool, in submission order
    queue,                  \* the pool's channel: indices into jobs, FIFO
    removed                 \* the remove_file calls made, in order

vars == <<args, validated, pc, stdout, fs, files, max_available_threads,
          num_threads, it, jobs, queue, removed>>

\* the lines of the main thread
UsageLine == [k |-> "Usage"]
ConvertingLine(n) == [k |-> "Converting", n |-> n]
DeletingLine == [k |-> "Deleting"]
DoneLine == [k |-> "Done"]

\* the lines of a task
FileLine(path) == [k |-> "File", path |-> path, err |-> "none"]
ErrorLine(path, e) == [k |-> "Error", path |-> path, err |-> e]

\* all argument vectors with at most n arguments after the program name
RECURSIVE ArgLists(_)
ArgLists(n) ==
    IF n = 0 THEN {<<t_prog>>}
    ELSE LET shorter == ArgLists(n - 1)
         IN  shorter \cup {Append(a, t) : a \in {b \in shorter : Len(b) = n}, t \in Tokens}

\* the same over the tokens toks
RECURSIVE ArgListsOver(_, _)
ArgListsOver(n, toks) ==
    IF n = 0 THEN {<<t_prog>>}
    ELSE LET shorter == ArgListsOver(n - 1, toks)
         IN  shorter \cup {Append(a, t) : a \in {b \in shorter : Len(b) = n}, t \in toks}

FsChoices ==
    {[p \in S |-> SrcContent] : S \in {T \in SUBSET UniverseSet : Cardinality(T) <= MaxFiles}}

Init ==
    /\ args \in ArgLists(MaxArgs)
    /\ fs \in FsChoices
    /\ validated = NotValidated
    /\ pc = "start"
    /\ stdout = <<>>
    /\ files = <<>>
    /\ max_available_threads = 0
    /\ num_threads = 0
    /\ it = 0
    /\ jobs = <<>>
    /\ queue = <<>>
    /\ removed = <<>>

(***************************************************************************)
(* main: arguments and discovery                                           *)
(***************************************************************************)
\* line 150: the call of validate_args; an index out of bounds panics
Main_Validate ==
    /\ pc = "start"
    /\ validated' = validate_args(args)
    /\ pc' = IF validated'.kind = "Panic" THEN "panicked" ELSE "validated"
    /\ UNCHANGED <<args, stdout, fs, files, max_available_threads, num_threads,
                   it, jobs, queue, removed>>

\* lines 150-156, None: the usage message, and main returns
Main_Usage ==
    /\ pc = "validated"
    /\ validated.kind = "None"
    /\ stdout' = Append(stdout, UsageLine)
    /\ pc' = "returned"
    /\ UNCHANGED <<args, validated, fs, files, max_available_threads, num_threads,
                   it, jobs, queue, removed>>

\* lines 150-160, Some: find_audio and the count line; which of the existing
\* directories cannot be listed is the host's choice
Main_FindAudio ==
    /\ pc = "validated"
    /\ validated.kind = "Some"
    /\ args' = <<>>
    /\ \E denied \in SUBSET {d \in DeniableDirs : \E p \in DOMAIN fs : Below(p, {d})} :
         files' = find_audio(validated.val.folder, fs, denied)
    /\ stdout' = Append(stdout, ConvertingLine(Len(files')))
    /\ pc' = "process"
    /\ UNCHANGED <<validated, fs, max_available_threads, num_threads,
                   it, jobs, queue, removed>>

(***************************************************************************)
(* process                                                                 *)
(***************************************************************************)
\* a variant without the cap at the available parallelism
NumThreads_NoCap(max_num_threads, available) ==
    IF max_num_threads < 1 THEN available ELSE max_num_threads

\* lines 53-57
NumThreads(max_num_threads, available) ==
    IF max_num_threads < 1 THEN available
    ELSE IF available < max_num_threads THEN available ELSE max_num_threads

\* what std::thread::available_parallelism() can return: Ok of a NonZeroUsize,
\* or Err, for which 0 stands
ParallelismResults == 0..MaxP

\* lines 48-59: the size of the pool, and the pool
Process_NewPool ==
    /\ pc = "process"
    /\ \E ap \in ParallelismResults :
         /\ max_available_threads' = IF ap = 0 THEN 1 ELSE ap
         /\ num_threads' = NumThreads(validated.val.num_threads, max_available_threads')
    /\ it' = 1
    /\ pc' = "submit"
    /\ UNCHANGED <<args, validated, stdout, fs, files, jobs, queue, removed>>

\* lines 61-64: the closure with its clones of the tuple's fields
NewJob(file_tup) ==
    [file |-> file_tup.path, dir |-> file_tup.parent, name |-> file_tup.file_name,
     st |-> "queued", reads |-> 0, writes |-> 0, rd |-> "none", wr |-> "none",
     audio |-> NoAudio, out |-> <<>>]

\* lines 60-98: one iteration of the submission loop, pool.execute
Process_Execute ==
    /\ pc = "submit"
    /\ it <= Len(files)
    /\ jobs' = Append(jobs, NewJob(files[it]))
    /\ queue' = Append(queue, Len(jobs) + 1)
    /\ it' = it + 1
    /\ UNCHANGED <<args, validated, pc, stdout, fs, files, max_available_threads,
                   num_threads, removed>>

\* the jobs a worker is running
Active == {j \in 1..Len(jobs) : jobs[j].st \in {"running", "decoded"}}

\* a variant that waits for the channel to drain, not for the running jobs
NoWork_QueueOnly == queue = <<>>

\* ThreadPool::join returns when nothing is queued and nothing is running
NoWork == queue = <<>> /\ Active = {}

\* line 100: pool.join(), after the loop; process returns
Process_Join ==
    /\ pc = "submit"
    /\ it > Len(files)
    /\ NoWork
    /\ pc' = "after_process"
    /\ it' = 0
    /\ UNCHANGED <<args, validated, stdout, fs, files, max_available_threads,
                   num_threads, jobs, queue, removed>>

(***************************************************************************)
(* The workers of the pool and the conversion task                         *)
(***************************************************************************)
\* a variant without the limit on the running jobs
WorkerFree_Unbounded == TRUE

\* a variant that keeps one worker back
WorkerFree_OffByOne == Cardinality(Active) < num_threads - 1

\* a worker is free to take a job
WorkerFree == Cardinality(Active) < num_threads

\* a free worker receives the next job of the channel and starts it (line 65)
Worker_Take ==
    /\ queue # <<>>
    /\ WorkerFree
    /\ LET j == Head(queue)
       IN  jobs' = [jobs EXCEPT ![j].st = "running",
                                ![j].out = Append(@, FileLine(jobs[j].file))]
    /\ queue' = Tail(queue)
    /\ UNCHANGED <<args, validated, pc, stdout, fs, files, max_available_threads,
                   num_threads, it, removed>>

\* a variant in which a failure drops the work that is still queued
AfterFailure_Abort(q) == <<>>

\* what the pool does with the rest of its work when a task reports a failure
AfterFailure(q) == q

\* a variant that queues the job again when the read fails
Task_Read_Retry(j) ==
    /\ jobs[j].st = "running"
    /\ \E r \in ReadResults(jobs[j].file, fs) :
         IF r.ok
         THEN /\ jobs' = [jobs EXCEPT ![j].st = "decoded", ![j].reads = @ + 1,
                                      ![j].rd = "Ok", ![j].audio = r.audio]
              /\ queue' = queue
         ELSE /\ jobs' = [jobs EXCEPT ![j].st = "queued", ![j].reads = @ + 1,
                                      ![j].rd = r.err,
                                      ![j].out = Append(@, ErrorLine(jobs[j].file, r.err))]
              /\ queue' = Append(queue, j)
    /\ UNCHANGED <<args, validated, pc, stdout, fs, files, max_available_threads,
                   num_threads, it, removed>>

\* lines 66, 88-95: aus::read, and the report of its failure
Task_Read(j) ==
    /\ jobs[j].st = "running"
    /\ \E r \in ReadResults(jobs[j].file, fs) :
         IF r.ok
         THEN /\ jobs' = [jobs EXCEPT ![j].st = "decoded", ![j].reads = @ + 1,
                                      ![j].rd = "Ok", ![j].audio = r.audio]
              /\ queue' = queue
         ELSE /\ jobs' = [jobs EXCEPT ![j].st = "done", ![j].reads = @ + 1,
                                      ![j].rd = r.err,
                                      ![j].out = Append(@, ErrorLine(jobs[j].file, r.err))]
              /\ queue' = AfterFailure(queue)
    /\ UNCHANGED <<args, validated, pc, stdout, fs, files, max_available_threads,
                   num_threads, it, removed>>

\* a variant that reports a failed write under the path of the source
Task_Write_SourceTag(j) ==
    /\ jobs[j].st = "decoded"
    /\ LET audio == Normalize(jobs[j].audio)
           new_file_name == NewFileName(jobs[j].dir, jobs[j].name)
       IN  \E w \in WriteResults :
             IF w = "Ok"
             THEN /\ fs' = [p \in DOMAIN fs \cup {new_file_name} |->
                              IF p = new_file_name THEN WavContent(audio) ELSE fs[p]]
                  /\ jobs' = [jobs EXCEPT ![j].st = "done", ![j].writes = @ + 1,
                                          ![j].wr = "Ok", ![j].audio = NoAudio]
                  /\ queue' = queue
             ELSE /\ fs' = fs
                  /\ jobs' = [jobs EXCEPT ![j].st = "done", ![j].writes = @ + 1,
                                          ![j].wr = w, ![j].audio = NoAudio,
                                          ![j].out = Append(@, ErrorLine(jobs[j].file, w))]
                  /\ queue' = AfterFailure(queue)
    /\ UNCHANGED <<args, validated, pc, stdout, files, max_available_threads,
                   num_threads, it, removed>>

\* lines 67-86: the defaults, the output name, aus::write and the report of
\* its failure
Task_Write(j) ==
    /\ jobs[j].st = "decoded"
    /\ LET audio == Normalize(jobs[j].audio)
           new_file_name == NewFileName(jobs[j].dir, jobs[j].name)
       IN  \E w \in WriteResults :
             IF w = "Ok"
             THEN /\ fs' = [p \in DOMAIN fs \cup {new_file_name} |->
                              IF p = new_file_name THEN WavContent(audio) ELSE fs[p]]
                  /\ jobs' = [jobs EXCEPT ![j].st = "done", ![j].writes = @ + 1,
                                          ![j].wr = "Ok", ![j].audio = NoAudio]
                  /\ queue' = queue
             ELSE /\ fs' = fs
                  /\ jobs' = [jobs EXCEPT ![j].st = "done", ![j].writes = @ + 1,
                                          ![j].wr = w, ![j].audio = NoAudio,
                                          ![j].out = Append(@, ErrorLine(new_file_name, w))]
                  /\ queue' = AfterFailure(queue)
    /\ UNCHANGED <<args, validated, pc, stdout, files, max_available_threads,
                   num_threads, it, removed>>

(***************************************************************************)
(* main: deletion and the last line                                        *)
(***************************************************************************)
\* lines 164, 173: no deletion asked for
Main_NoDelete ==
    /\ pc = "after_process"
    /\ ~validated.val.delete
    /\ stdout' = Append(stdout, DoneLine)
    /\ pc' = "returned"
    /\ UNCHANGED <<args, validated, fs, files, max_available_threads, num_threads,
                   it, jobs, queue, removed>>

\* lines 164-165
Main_DeleteStart ==
    /\ pc = "after_process"
    /\ validated.val.delete
    /\ stdout' = Append(stdout, DeletingLine)
    /\ it' = 1
    /\ pc' = "delete"
    /\ UNCHANGED <<args, validated, fs, files, max_available_threads, num_threads,
                   jobs, queue, removed>>

\* the results std::fs::remove_file(path) can have: a file that is not there
\* cannot be removed, one that is there may be removed or not (permissions)
RemoveResults(path, fsys) == IF path \in DOMAIN fsys THEN {TRUE, FALSE} ELSE {FALSE}

\* a variant that leaves the loop at the first removal that fails
Main_Remove_StopOnError ==
    /\ pc = "delete"
    /\ it <= Len(files)
    /\ LET path == files[it].path
       IN  \E ok \in RemoveResults(path, fs) :
             /\ removed' = Append(removed, [path |-> path, ok |-> ok])
             /\ fs' = IF ok THEN [p \in DOMAIN fs \ {path} |-> fs[p]] ELSE fs
             /\ it' = IF ok THEN it + 1 ELSE Len(files) + 1
    /\ UNCHANGED <<args, validated, pc, stdout, files, max_available_threads,
                   num_threads, jobs, queue>>

\* a variant that removes the converted file next to the original
Main_Remove_Output ==
    /\ pc = "delete"
    /\ it <= Len(files)
    /\ LET path == NewFileName(files[it].parent, files[it].file_name)
       IN  \E ok \in RemoveResults(path, fs) :
             /\ removed' = Append(removed, [path |-> path, ok |-> ok])
             /\ fs' = IF ok THEN [p \in DOMAIN fs \ {path} |-> fs[p]] ELSE fs
    /\ it' = it + 1
    /\ UNCHANGED <<args, validated, pc, stdout, files, max_available_threads,
                   num_threads, jobs, queue>>

\* lines 166-171: one iteration of the deletion loop
Main_Remove ==
    /\ pc = "delete"
    /\ it <= Len(files)
    /\ LET path == files[it].path
       IN  \E ok \in RemoveResults(path, fs) :
             /\ removed' = Append(removed, [path |-> path, ok |-> ok])
             /\ fs' = IF ok THEN [p \in DOMAIN fs \ {path} |-> fs[p]] ELSE fs
    /\ it' = it + 1
    /\ UNCHANGED <<args, validated, pc, stdout, files, max_available_threads,
                   num_threads, jobs, queue>>

\* line 173, after the deletion loop
Main_Done ==
    /\ pc = "delete"
    /\ it > Len(files)
    /\ stdout' = Append(stdout, DoneLine)
    /\ it' = 0
    /\ pc' = "returned"
    /\ UNCHANGED <<args, validated, fs, files, max_available_threads, num_threads,
                   jobs, queue, removed>>

Next ==
    \/ Main_Validate
    \/ Main_Usage
    \/ Main_FindAudio
    \/ Process_NewPool
    \/ Process_Execute
    \/ Process_Join
    \/ Worker_Take
    \/ \E j \in 1..Len(jobs) : Task_Read(j)
    \/ \E j \in 1..Len(jobs) : Task_Write(j)
    \/ Main_NoDelete
    \/ Main_DeleteStart
    \/ Main_Remove
    \/ Main_Done

Spec == Init /\ [][Next]_vars

\* the scheduler runs the main thread and every worker that can take a step,
\* and every call of the codec and of the file system returns
MainNext ==
    \/ Main_Validate
    \/ Main_Usage
    \/ Main_FindAudio
    \/ Process_NewPool
    \/ Process_Execute
    \/ Process_Join
    \/ Main_NoDelete
    \/ Main_DeleteStart
    \/ Main_Remove
    \/ Main_Done

WorkerNext ==
    \/ Worker_Take
    \/ \E j \in 1..Len(jobs) : Task_Read(j)
    \/ \E j \in 1..Len(jobs) : Task_Write(j)

\* the runs checked for termination: the short forms of the flags, and the
\* files of the first directories
ShortTokens == {t_f, t_n, t_d, t_bogus, t_2, t_dir}

FairFiles == {p_c_ogg, p_a_flac, p_a_mp3, p_b_MP3}

FairInit ==
    /\ Init
    /\ \A k \in 2..Len(args) : args[k] \in ShortTokens
    /\ DOMAIN fs \subseteq FairFiles

FairSpec == FairInit /\ [][Next]_vars /\ WF_vars(MainNext) /\ WF_vars(WorkerNext)

\* the runs in which validate_args is studied: longer argument vectors over
\* fewer tokens, and one file in the current directory
ArgTokens == {t_f, t_folder, t_n, t_d, t_2, t_0, t_brack}

InitArgs ==
    /\ args \in ArgListsOver(MaxArgLen, ArgTokens)
    /\ fs = [p \in {p_c_ogg} |-> SrcContent]
    /\ validated = NotValidated
    /\ pc = "start"
    /\ stdout = <<>>
    /\ files = <<>>
    /\ max_available_threads = 0
    /\ num_threads = 0
    /\ it = 0
    /\ jobs = <<>>
    /\ queue = <<>>
    /\ removed = <<>>

SpecArgs == InitArgs /\ [][Next]_vars

(***************************************************************************)
(* Properties                                                              *)
(***************************************************************************)
Accepted == validated.kind = "Some"

DeleteFlag == Accepted /\ validated.val.delete

\* process has returned to main
ProcessReturned == Accepted /\ pc \in {"after_process", "delete", "returned"}

AllSubmitted == Len(jobs) = Len(files)

AllFinished == \A j \in 1..Len(jobs) : jobs[j].st = "done"

Failed(j) == jobs[j].rd \in AudioError \/ jobs[j].wr \in AudioError

QueuedJobs == {queue[k] : k \in 1..Len(queue)}

\* C1 (completion barrier): once process has returned, every record has been
\* submitted and every submitted task has finished and none is queued or
\* running; and as soon as one remove_file call has been made, process has
\* returned (with the delete flag set), so no removal happens while a task is
\* queued or running.
C1_CompletionBarrier ==
    /\ ProcessReturned => AllSubmitted /\ AllFinished /\ queue = <<>> /\ Active = {}
    /\ removed # <<>> =>
         /\ DeleteFlag
         /\ pc \in {"delete", "returned"}
         /\ AllSubmitted /\ AllFinished /\ queue = <<>> /\ Active = {}

\* a run with the delete flag and two workers in which, after both tasks of
\* the work set ran, the first original has been removed
C1_Witness ==
    /\ DeleteFlag
    /\ pc = "delete"
    /\ num_threads >= 2
    /\ Len(files) = 2
    /\ Len(removed) = 1
    /\ removed[1].ok

\* C2 (exactly once): the jobs submitted are, in order, one per record of the
\* work set; a job is in the channel exactly while it has not been started,
\* and at most once; no job is read or written more than once; and when
\* process has returned every record has been read exactly once.
C2_ExactlyOnce ==
    /\ Len(jobs) <= Len(files)
    /\ \A j \in 1..Len(jobs) :
         /\ jobs[j].file = files[j].path
         /\ jobs[j].dir = files[j].parent
         /\ jobs[j].name = files[j].file_name
         /\ jobs[j].reads <= 1
         /\ jobs[j].writes <= 1
         /\ (jobs[j].st = "queued") = (j \in QueuedJobs)
         /\ (jobs[j].st = "queued") => jobs[j].reads = 0
    /\ \A k, l \in 1..Len(queue) : queue[k] = queue[l] => k = l
    /\ ProcessReturned =>
         /\ AllSubmitted
         /\ \A j \in 1..Len(jobs) : jobs[j].reads = 1

\* process has returned after two tasks, one whose read failed and one whose
\* conversion succeeded
C2_Witness ==
    /\ pc = "after_process"
    /\ Len(files) = 2
    /\ jobs[1].rd = "WrongFormat" /\ jobs[1].reads = 1 /\ jobs[1].writes = 0
    /\ jobs[2].wr = "Ok" /\ jobs[2].reads = 1 /\ jobs[2].writes = 1

\* C3 (failure isolation): a failure never takes a job out of the channel;
\* and when process has returned every task has finished, every task whose
\* read succeeded had its write attempted, and every task whose read and
\* write both succeeded has its .wav file in place, holding audio, whatever
\* happened to the other tasks.
C3_FailureIsolation ==
    /\ \A j \in 1..Len(jobs) : jobs[j].st = "queued" => j \in QueuedJobs
    /\ ProcessReturned =>
         /\ AllSubmitted /\ AllFinished
         /\ \A j \in 1..Len(jobs) :
              /\ jobs[j].rd = "Ok" => jobs[j].writes = 1
              /\ (jobs[j].rd = "Ok" /\ jobs[j].wr = "Ok") =>
                    /\ NewFileName(jobs[j].dir, jobs[j].name) \in DOMAIN fs
                    /\ fs[NewFileName(jobs[j].dir, jobs[j].name)].wav

\* process has returned from a work set whose first file was reported
\* corrupt and whose second file was converted
C3_Witness ==
    /\ pc = "after_process"
    /\ Len(files) = 2
    /\ jobs[1].rd = "FileCorrupt"
    /\ jobs[2].rd = "Ok" /\ jobs[2].wr = "Ok"
    /\ NewFileName(jobs[2].dir, jobs[2].name) \in DOMAIN fs
    /\ NewFileName(jobs[1].dir, jobs[1].name) \notin DOMAIN fs

\* C4 (worker cap): with R the requested count and P the available
\* parallelism (1 when it cannot be determined), the pool has P workers when
\* R = 0, R when 1 <= R < P, and P when R >= P; so never none and never more
\* than P.
C4_WorkerCap ==
    pc = "submit" =>
        LET R == validated.val.num_threads
            P == max_available_threads
        IN  /\ P >= 1
            /\ R = 0 => num_threads = P
            /\ (1 <= R /\ R < P) => num_threads = R
            /\ R >= P => num_threads = P
            /\ num_threads >= 1
            /\ num_threads <= P

\* a pool made when more workers were asked for than the host has
C4_Witness ==
    /\ pc = "submit"
    /\ validated.val.num_threads = 2
    /\ max_available_threads = 1
    /\ num_threads = 1

\* C5 (bounded parallelism): the jobs running at any moment are at most as
\* many as the pool has workers, and a job that is not running and has not
\* finished is waiting in the channel.
C5_BoundedParallelism ==
    /\ pc = "submit" => Cardinality(Active) <= num_threads
    /\ pc # "submit" => Active = {}
    /\ \A j \in 1..Len(jobs) :
         jobs[j].st \notin {"running", "decoded", "done"} => j \in QueuedJobs

\* every worker of the pool is busy while a further job waits in the channel
C5_Witness ==
    /\ pc = "submit"
    /\ Cardinality(Active) = num_threads
    /\ queue # <<>>
    /\ Len(files) > num_threads

DonePrinted == stdout # <<>> /\ stdout[Len(stdout)] = DoneLine

\* C6 (termination): under fair scheduling every run whose arguments were
\* accepted eventually prints the Done line; and whenever the Done line has
\* been printed, main has returned, every record was submitted, every task
\* has finished, and with the delete flag a removal was attempted for every
\* record, whatever failed.
C6_Termination ==
    /\ [](DonePrinted =>
            /\ pc = "returned"
            /\ AllSubmitted /\ AllFinished /\ NoWork
            /\ DeleteFlag => Len(removed) = Len(files))
    /\ (Accepted ~> DonePrinted)

\* the Done line after a run in which a conversion and a removal both failed
C6_Witness ==
    /\ DonePrinted
    /\ DeleteFlag
    /\ Len(files) = 2
    /\ \E j \in 1..Len(jobs) : Failed(j)
    /\ \E k \in 1..Len(removed) : ~removed[k].ok

\* the lines a task may have printed: its File line, then at most one report
\* of a failure of its read or of its write
TaskLinesOk(j) ==
    /\ Len(jobs[j].out) <= 2
    /\ \A k \in 1..Len(jobs[j].out) :
         jobs[j].out[k].k = "Error" =>
            /\ jobs[j].out[k].err \in {jobs[j].rd, jobs[j].wr}
            /\ jobs[j].out[k].err \in AudioError

\* C7 (unconditional deletion): with the delete flag, the deletion loop makes
\* one removal attempt per record passed, in the order of the work set and
\* whether or not that record's conversion or an earlier removal failed; when
\* main has returned, a removal was attempted for every record, and nothing
\* was printed about a removal: the main thread printed its three lines and
\* the tasks only their own File line and codec report.
C7_UnconditionalDeletion ==
    /\ (DeleteFlag /\ pc = "delete") => Len(removed) = it - 1
    /\ (DeleteFlag /\ pc = "returned") =>
          /\ Len(removed) = Len(files)
          /\ stdout = <<ConvertingLine(Len(files)), DeletingLine, DoneLine>>
    /\ DeleteFlag =>
          /\ \A k \in 1..Len(removed) : removed[k].path = files[k].path
          /\ \A j \in 1..Len(jobs) : TaskLinesOk(j)

\* main has returned after a first removal that failed and a second that was
\* made all the same, of a record whose conversion had failed
C7_Witness ==
    /\ DeleteFlag
    /\ pc = "returned"
    /\ Len(removed) = 2
    /\ ~removed[1].ok
    /\ removed[2].ok
    /\ Failed(2)

RemovedPaths == {removed[k].path : k \in 1..Len(removed)}

WorkSetPaths == {files[k].path : k \in 1..Len(files)}

\* C8 (deletion scope): the paths for which a removal was attempted are paths
\* of the work set; there is none unless the delete flag is set; every file
\* that is gone from the file system was removed by such an attempt; the
\* records deleted are those dispatched; and the work set is not modified
\* after discovery.
C8_DeletionScope ==
    /\ [](/\ RemovedPaths \subseteq WorkSetPaths
          /\ ~DeleteFlag => removed = <<>>
          /\ \A k \in 1..Len(removed) :
               k <= Len(jobs) /\ removed[k].path = jobs[k].file)
    /\ [][/\ pc \notin {"start", "validated"} => files' = files
          /\ \A p \in DOMAIN fs :
               p \notin DOMAIN fs' =>
                  /\ p \in WorkSetPaths
                  /\ removed' = Append(removed, [path |-> p, ok |-> TRUE])]_vars

\* a removal made of a record of a work set of two
C8_Witness ==
    /\ DeleteFlag
    /\ Len(files) = 2
    /\ Len(removed) = 2
    /\ removed[2].ok
    /\ removed[2].path = files[2].path
    /\ removed[2].path \notin DOMAIN fs

(***************************************************************************)
(* Properties of the arguments                                             *)
(***************************************************************************)
ValueFlags == {t_f, t_folder, t_n, t_num_threads}

\* the indices of the argument vector at which a flag is expected: the first
\* argument, and the one after each recognized flag and its value
RECURSIVE FlagPositions(_, _)
FlagPositions(a, i) ==
    IF i > Len(a) THEN {}
    ELSE {i} \cup (IF a[i] \in ValueFlags THEN FlagPositions(a, i + 2)
                   ELSE IF a[i] \in {t_d, t_delete} THEN FlagPositions(a, i + 1)
                   ELSE {})

\* some argument in a flag position is not a recognized flag
HasUnknownFlag(a) == \E i \in FlagPositions(a, 2) : a[i] \notin valid_args

\* text that is not a decimal integer: digits, after an optional sign
NotInteger(s) ==
    LET body == IF s # <<>> /\ Head(s) \in {"+", "-"} THEN Tail(s) ELSE s
    IN  body = <<>> \/ \E k \in 1..Len(body) : body[k] \notin Digits

\* some -n/--num-threads is followed by a value that is not an integer
HasNonIntegerCount(a) ==
    \E i \in FlagPositions(a, 2) :
        a[i] \in {t_n, t_num_threads} /\ i + 1 <= Len(a) /\ NotInteger(a[i + 1])

\* the last argument is a flag that takes a value
MissingValue(a) ==
    /\ Len(a) \in FlagPositions(a, 2)
    /\ a[Len(a)] \in ValueFlags

NoWorkDone ==
    /\ files = <<>> /\ jobs = <<>> /\ queue = <<>> /\ removed = <<>>
    /\ num_threads = 0
    /\ \A p \in DOMAIN fs : ~fs[p].wav

\* C9 (argument rejection): when the argument list has an unrecognized
\* argument where a flag is expected, or a value of -n/--num-threads that is
\* not an integer, validate_args returns None; and after None main prints the
\* usage message and returns, and at no time is a file discovered, a task
\* submitted, a pool made, a file written or a removal attempted.
C9_ArgumentRejection ==
    /\ (pc # "start" /\ args # <<>>
        /\ (HasUnknownFlag(args) \/ HasNonIntegerCount(args)))
          => validated.kind = "None"
    /\ validated.kind = "None" =>
          /\ pc \in {"validated", "returned"}
          /\ pc = "returned" => stdout = <<UsageLine>>
          /\ pc = "validated" => stdout = <<>>
          /\ NoWorkDone

\* main has returned with the usage message for an unknown flag that follows
\* a recognized one
C9_Witness ==
    /\ pc = "returned"
    /\ stdout = <<UsageLine>>
    /\ Len(args) = 3
    /\ args[2] \in {t_d, t_delete}
    /\ args[3] = t_bogus
    /\ DOMAIN fs # {}

\* C10 (missing flag value): when the last argument is -f/--folder or
\* -n/--num-threads with no value after it, validate_args returns None, and
\* main prints the usage message and returns.
C10_MissingValueRejected ==
    (pc # "start" /\ args # <<>> /\ MissingValue(args)) =>
        /\ validated.kind = "None"
        /\ pc \in {"validated", "returned"}
        /\ pc = "returned" => stdout = <<UsageLine>>

\* the recognized flags of the argument vector
FlagsOf(a) == {i \in FlagPositions(a, 2) : a[i] \in valid_args}

\* C11 as claimed (flag count bound): an argument list with more than two
\* flags yields no configuration.
C11_FlagCountBound ==
    (pc # "start" /\ args # <<>> /\ Cardinality(FlagsOf(args)) > 2) =>
        validated.kind # "Some"

\* C11 as amended (length bound): an argument vector of more than six
\* entries, the program name included, makes validate_args return None
\* whatever it holds, so a list of more than five flags does; main then
\* prints the usage message and returns.
C11_LengthBound ==
    (pc # "start" /\ args # <<>>
     /\ (Len(args) > 6 \/ Cardinality(FlagsOf(args)) > 5)) =>
        /\ validated.kind = "None"
        /\ pc \in {"validated", "returned"}
        /\ pc = "returned" => stdout = <<UsageLine>>
        /\ NoWorkDone

\* main has returned with the usage message for a vector of seven entries
\* that the loop would have accepted
C11_Witness ==
    /\ pc = "returned"
    /\ stdout = <<UsageLine>>
    /\ Len(args) = 7
    /\ validated.kind = "None"
    /\ ValidateLoop(args, 2, DefaultArgs).kind = "Some"


(***************************************************************************)
(* C12: default normalization.  Whenever a task that decoded a buffer      *)
(* encodes it, the encoded buffer has bit depth 16 and the tag S16 if the  *)
(* decoded bit depth was 0 and the decoded bit depth and tag otherwise,    *)
(* and, independently, sample rate 44100 if the decoded rate was 0 and the *)
(* decoded rate otherwise.                                                 *)
(***************************************************************************)
Encoded(j) ==
    /\ jobs[j].st = "decoded"
    /\ jobs'[j].st = "done"
    /\ jobs'[j].wr = "Ok"

C12_DefaultNormalization ==
    [][\A j \in DOMAIN jobs :
         Encoded(j) =>
           LET d == jobs[j].audio
               e == fs'[NewFileName(jobs[j].dir, jobs[j].name)].audio
           IN  /\ d.bits_per_sample = 0 =>
                     e.bits_per_sample = 16 /\ e.audio_format = "S16"
               /\ d.bits_per_sample # 0 =>
                     /\ e.bits_per_sample = d.bits_per_sample
                     /\ e.audio_format = d.audio_format
               /\ d.sample_rate = 0 => e.sample_rate = 44100
               /\ d.sample_rate # 0 => e.sample_rate = d.sample_rate]_vars

\* C12: both mixed cases have been encoded in one run: an unset bit depth
\* with a set rate, and a set bit depth with an unset rate
C12_Witness ==
    /\ \E p \in DOMAIN fs :
         /\ fs[p].wav
         /\ fs[p].audio = [bits_per_sample |-> 16, sample_rate |-> 48000,
                           audio_format |-> "S16"]
    /\ \E p \in DOMAIN fs :
         /\ fs[p].wav
         /\ fs[p].audio = [bits_per_sample |-> 24, sample_rate |-> 44100,
                           audio_format |-> "S24"]


(***************************************************************************)
(* C13: unrepresentable paths.  A matched path whose path, parent          *)
(* directory or file stem is not valid text has no record in the result of *)
(* discovery: every record is the record of a file all of whose three      *)
(* parts are valid text, and so is every task submitted and every removal  *)
(* attempted.                                                              *)
(***************************************************************************)
Representable(p) == IsUtf8(p) /\ IsUtf8(Parent(p)) /\ IsUtf8(FileStem(p))

RecordOfRepresentable(r) ==
    \E p \in UniverseSet :
      /\ Representable(p)
      /\ r = [path |-> p, parent |-> Parent(p), file_name |-> FileStem(p)]

C13_UnrepresentableExcluded ==
    /\ \A k \in 1..Len(files) : RecordOfRepresentable(files[k])
    /\ \A j \in 1..Len(jobs) :
         RecordOfRepresentable([path |-> jobs[j].file, parent |-> jobs[j].dir,
                                file_name |-> jobs[j].name])
    /\ \A p \in RemovedPaths : \E q \in UniverseSet : Representable(q) /\ p = q


(***************************************************************************)
(* C14: discovery completeness.  The records discovery returns are, one    *)
(* for one and without duplicates, the files below the folder whose        *)
(* extension is exactly one of the listed ones, less those in directories  *)
(* that could not be listed; no file with another extension has a record.  *)
(***************************************************************************)
Extension(p) ==
    LET n == FileName(p)
    IN  SubSeq(n, LastIndexOf(n, ".", Len(n)) + 1, Len(n))

AllowListed(p) ==
    /\ LastIndexOf(FileName(p), ".", Len(FileName(p))) > 0
    /\ \E k \in 1..Len(extensions) : extensions[k] = Extension(p)

MatchingFiles(directory, fsys, denied) ==
    {p \in DOMAIN fsys : InDir(directory, p) /\ AllowListed(p) /\ ~Below(p, denied)}

C14_DiscoveryCompleteness ==
    [][(pc = "validated" /\ pc' = "process") =>
         \E denied \in SUBSET DeniableDirs :
           LET matching == MatchingFiles(validated.val.folder, fs, denied)
           IN  /\ Len(files') = Cardinality(matching)
               /\ \A k \in 1..Len(files') : files'[k].path \in matching
               /\ \A p \in matching : \E k \in 1..Len(files') : files'[k].path = p
               /\ \A k, l \in 1..Len(files') : k # l => files'[k] # files'[l]]_vars


(***************************************************************************)
(* C15: per-task protocol.  A task decodes its record's path once.  If the *)
(* decode fails the task ends with exactly one failure report, tagged with *)
(* the source path, without an encode and without writing a file.  If it   *)
(* succeeds the task encodes exactly once, to {directory}/{stem}.wav, and  *)
(* ends with exactly one failure report tagged with that destination if    *)
(* the encode fails and with none if it succeeds.  A file is written only  *)
(* by a successful encode, at the destination of its task.                 *)
(***************************************************************************)
Destination(j) == NewFileName(jobs[j].dir, jobs[j].name)

TaskProtocol(j) ==
    LET t == jobs[j]
    IN  /\ t.reads <= 1 /\ t.writes <= 1
        /\ t.writes = 1 => t.rd = "Ok"
        /\ t.st \in {"decoded", "done"} => t.reads = 1
        /\ t.st = "decoded" => t.writes = 0 /\ t.out = <<FileLine(t.file)>>
        /\ t.rd \in AudioError =>
              /\ t.st = "done" /\ t.writes = 0 /\ t.wr = "none"
              /\ t.out = <<FileLine(t.file), ErrorLine(t.file, t.rd)>>
        /\ (t.st = "done" /\ t.rd = "Ok") =>
              /\ t.writes = 1
              /\ t.wr = "Ok" => t.out = <<FileLine(t.file)>>
              /\ t.wr # "Ok" =>
                    /\ t.wr \in AudioError
                    /\ t.out = <<FileLine(t.file), ErrorLine(Destination(j), t.wr)>>

C15_TaskProtocol ==
    /\ [](\A j \in 1..Len(jobs) : TaskProtocol(j))
    /\ [][/\ \A j \in 1..Len(jobs) :
               Encoded(j) => /\ Destination(j) \in DOMAIN fs'
                             /\ fs'[Destination(j)].wav
          /\ \A p \in DOMAIN fs' :
               (p \notin DOMAIN fs \/ fs'[p] # fs[p]) =>
                 \E j \in 1..Len(jobs) : Encoded(j) /\ p = Destination(j)]_vars

\* C15: one task has ended on a failed decode and another on a failed encode
C15_Witness ==
    /\ \E j \in 1..Len(jobs) : jobs[j].st = "done" /\ jobs[j].rd \in AudioError
    /\ \E j \in 1..Len(jobs) :
         /\ jobs[j].st = "done" /\ jobs[j].rd = "Ok" /\ jobs[j].wr \in AudioError
         /\ Destination(j) # jobs[j].file


(***************************************************************************)
(* C16: no shared output between tasks.  When the paths of the records of  *)
(* the work set are pairwise different, no two tasks of the run that reach *)
(* the encode have the same output path.                                   *)
(***************************************************************************)
UniqueRecordPaths ==
    \A k, l \in 1..Len(files) : k # l => files[k].path # files[l].path

C16_NoSharedOutput ==
    UniqueRecordPaths =>
      \A j, k \in 1..Len(jobs) :
        (j # k /\ jobs[j].rd = "Ok" /\ jobs[k].rd = "Ok") =>
          Destination(j) # Destination(k)


(***************************************************************************)
(* C17: outputs and sources are disjoint.  The output path of a task is    *)
(* never the path of a record of the work set; the file of a record is     *)
(* never overwritten by a task; and a file a task wrote is never removed,  *)
(* in the delete phase or otherwise.                                       *)
(***************************************************************************)
C17_OutputsSourcesDisjoint ==
    /\ [](/\ \A k \in 1..Len(files) :
               NewFileName(files[k].parent, files[k].file_name) \notin WorkSetPaths
          /\ \A j \in 1..Len(jobs) : Destination(j) \notin WorkSetPaths
          /\ \A j \in 1..Len(jobs) : Destination(j) \notin RemovedPaths)
    /\ [][\A p \in DOMAIN fs :
            /\ (p \in WorkSetPaths /\ p \in DOMAIN fs') => fs'[p] = fs[p]
            /\ fs[p].wav => p \in DOMAIN fs']_vars

\* C17: the run is over, both records were converted to different files and
\* both sources were removed, and the converted files are still there
C17_Witness ==
    /\ pc = "returned"
    /\ Len(files) = 2 /\ Len(jobs) = 2 /\ Len(removed) = 2
    /\ Destination(1) # Destination(2)
    /\ \A j \in 1..2 : /\ jobs[j].wr = "Ok"
                        /\ removed[j].ok
                        /\ jobs[j].file \notin DOMAIN fs
                        /\ Destination(j) \in DOMAIN fs


(***************************************************************************)
(* C18: configuration defaults and frame.  For an accepted argument list,  *)
(* the folder is the value of the last -f/--folder and "." when there is   *)
(* none, the worker count is the value of the last -n/--num-threads and 0  *)
(* when there is none, and delete is set exactly when -d/--delete occurs;  *)
(* so a flag changes its own field only, and the list without arguments    *)
(* gives the default configuration.                                        *)
(***************************************************************************)
FlagsAmong(a, names) == {i \in FlagPositions(a, 2) : a[i] \in names}

Last(S) == CHOOSE i \in S : \A k \in S : k <= i

C18_DefaultsAndFrame ==
    (pc = "validated" /\ Accepted) =>
      LET f == FlagsAmong(args, {t_f, t_folder})
          n == FlagsAmong(args, {t_n, t_num_threads})
          d == FlagsAmong(args, {t_d, t_delete})
          v == validated.val
      IN  /\ v.folder = IF f = {} THEN <<".">> ELSE args[Last(f) + 1]
          /\ v.num_threads = IF n = {} THEN 0 ELSE ParseUsize(args[Last(n) + 1])
          /\ v.delete = (d # {})
          /\ Len(args) = 1 =>
                v = [folder |-> <<".">>, num_threads |-> 0, delete |-> FALSE]

\* C18: an accepted list in which -f is repeated with different values, the
\* last of which is the folder; -d occurs and -n does not, and the worker
\* count is still 0
C18_Witness ==
    /\ pc = "validated" /\ Accepted
    /\ \E i, k \in FlagsAmong(args, {t_f, t_folder}) :
         i < k /\ args[i + 1] # args[k + 1] /\ validated.val.folder = args[k + 1]
    /\ FlagsAmong(args, {t_n, t_num_threads}) = {}
    /\ FlagsAmong(args, {t_d, t_delete}) # {}
    /\ validated.val.num_threads = 0

=============================================================================
